---------------------------- MODULE Spec2Model ----------------------------
(***************************************************************************)
(* Model of docs/archive/unused-scripts/execute_rls_fixes.py: a script     *)
(* that builds three request headers, prints three progress lines, issues  *)
(* one requests.post to the exec_sql RPC endpoint inside a try block and   *)
(* prints either the response or the caught exception.                     *)
(*                                                                         *)
(* A Python str is modelled as the sequence of its code points, so that    *)
(* concatenation, JSON escaping and the encoding done by print are         *)
(* computed rather than assumed.  The program counter is the source line   *)
(* about to execute.  requests.post is split in two steps (the call is     *)
(* issued; the call returns or raises) because the script blocks in it     *)
(* with no timeout.                                                        *)
(*                                                                         *)
(* Environment: the encoding of standard output, the status code and text  *)
(* of the response, and the exception the call raises.  Standard output    *)
(* is an open stream; the only failure of print that is modelled is the    *)
(* UnicodeEncodeError raised for text the stream's encoding cannot         *)
(* represent.  Asynchronous signals (KeyboardInterrupt) are not modelled.  *)
(***************************************************************************)
EXTENDS Integers, Sequences, FiniteSets, TLC

(***************************************************************************)
(* Bounds of the environment                                               *)
(***************************************************************************)
\* longest response text the server returns, in code points
MaxBodyLen == 2

\* code points a response text is made of: "a", line feed, U+00E9, U+20AC
BodyAlphabet == {97, 10, 233, 8364}

\* status codes the server answers with: 2xx, 3xx, 4xx, 5xx and one outside
StatusCodes == {200, 201, 204, 304, 400, 401, 404, 500, 503, 999}

\* encodings standard output may have
Encodings == {"utf-8", "latin-1", "ascii"}

(***************************************************************************)
(* String literals of the script, as code points                           *)
(***************************************************************************)
\* line 5: SUPABASE_URL = "https://jwsidjgsjohhrntxdljp.supabase.co"
SUPABASE_URL ==
    << 104, 116, 116, 112, 115, 58, 47, 47, 106, 119, 115, 105, 100, 106, 103, 115,
       106, 111, 104, 104, 114, 110, 116, 120, 100, 108, 106, 112, 46, 115, 117, 112,
       97, 98, 97, 115, 101, 46, 99, 111 >>

\* line 6: SERVICE_KEY = "eyJhbGciOiJIUzI1NiIs..." (the service-role token literal)
SERVICE_KEY ==
    << 101, 121, 74, 104, 98, 71, 99, 105, 79, 105, 74, 73, 85, 122, 73, 49,
       78, 105, 73, 115, 73, 110, 82, 53, 99, 67, 73, 54, 73, 107, 112, 88,
       86, 67, 74, 57, 46, 101, 121, 74, 112, 99, 51, 77, 105, 79, 105, 74,
       122, 100, 88, 66, 104, 89, 109, 70, 122, 90, 83, 73, 115, 73, 110, 74,
       108, 90, 105, 73, 54, 73, 109, 112, 51, 99, 50, 108, 107, 97, 109, 100,
       122, 97, 109, 57, 111, 97, 72, 74, 117, 100, 72, 104, 107, 98, 71, 112,
       119, 73, 105, 119, 105, 99, 109, 57, 115, 90, 83, 73, 54, 73, 110, 78,
       108, 99, 110, 90, 112, 89, 50, 86, 102, 99, 109, 57, 115, 90, 83, 73,
       115, 73, 109, 108, 104, 100, 67, 73, 54, 77, 84, 99, 49, 78, 106, 99,
       52, 79, 84, 77, 50, 77, 83, 119, 105, 90, 88, 104, 119, 73, 106, 111,
       121, 77, 68, 99, 121, 77, 122, 89, 49, 77, 122, 89, 120, 102, 81, 46,
       111, 54, 120, 78, 50, 113, 121, 116, 67, 69, 105, 76, 77, 49, 67, 86,
       49, 99, 83, 122, 83, 100, 74, 48, 109, 116, 84, 120, 88, 81, 89, 50,
       105, 89, 88, 114, 113, 97, 57, 99, 68, 112, 65 >>

\* line 9: the header name "apikey"
K_apikey ==
    << 97, 112, 105, 107, 101, 121 >>

\* line 10: the header name "Authorization"
K_Authorization ==
    << 65, 117, 116, 104, 111, 114, 105, 122, 97, 116, 105, 111, 110 >>

\* line 11: the header name "Content-Type"
K_ContentType ==
    << 67, 111, 110, 116, 101, 110, 116, 45, 84, 121, 112, 101 >>

\* line 10: the literal part of f"Bearer {SERVICE_KEY}"
S_Bearer ==
    << 66, 101, 97, 114, 101, 114, 32 >>

\* line 11: "application/json"
S_ApplicationJson ==
    << 97, 112, 112, 108, 105, 99, 97, 116, 105, 111, 110, 47, 106, 115, 111, 110 >>

\* line 15: "Testing RPC execution..."
S_Testing ==
    << 84, 101, 115, 116, 105, 110, 103, 32, 82, 80, 67, 32, 101, 120, 101, 99,
       117, 116, 105, 111, 110, 46, 46, 46 >>

\* line 33: "Attempting to create is_admin function..."
S_Attempting ==
    << 65, 116, 116, 101, 109, 112, 116, 105, 110, 103, 32, 116, 111, 32, 99, 114,
       101, 97, 116, 101, 32, 105, 115, 95, 97, 100, 109, 105, 110, 32, 102, 117,
       110, 99, 116, 105, 111, 110, 46, 46, 46 >>

\* line 34: the literal part of f"SQL: {sql_function}"
S_SqlPrefix ==
    << 83, 81, 76, 58, 32 >>

\* line 39: the literal part of f"{SUPABASE_URL}/rest/v1/rpc/exec_sql"
S_RpcPath ==
    << 47, 114, 101, 115, 116, 47, 118, 49, 47, 114, 112, 99, 47, 101, 120, 101,
       99, 95, 115, 113, 108 >>

\* line 41: the key "sql" of the json argument
K_sql ==
    << 115, 113, 108 >>

\* line 43: the literal "Response: " of the f-string
S_ResponsePrefix ==
    << 82, 101, 115, 112, 111, 110, 115, 101, 58, 32 >>

\* line 43: the literal " - " of the f-string
S_Dash ==
    << 32, 45, 32 >>

\* line 45: the literal part of f"Error: {e}"
S_ErrorPrefix ==
    << 69, 114, 114, 111, 114, 58, 32 >>

\* lines 18-31: the triple-quoted SQL literal; it starts and ends with a newline (10)
\* and holds, line by line:
\*   CREATE OR REPLACE FUNCTION public.is_admin(user_id uuid DEFAULT auth.uid())
\*   RETURNS boolean
\*   LANGUAGE plpgsql
\*   SECURITY DEFINER
\*   AS $$
\*   BEGIN
\*       RETURN EXISTS (
\*           SELECT 1 FROM public.profiles
\*           WHERE id = user_id AND role = 'admin'
\*       );
\*   END;
\*   $$;
SQL_LITERAL ==
    << 10, 67, 82, 69, 65, 84, 69, 32, 79, 82, 32, 82, 69, 80, 76, 65,
       67, 69, 32, 70, 85, 78, 67, 84, 73, 79, 78, 32, 112, 117, 98, 108,
       105, 99, 46, 105, 115, 95, 97, 100, 109, 105, 110, 40, 117, 115, 101, 114,
       95, 105, 100, 32, 117, 117, 105, 100, 32, 68, 69, 70, 65, 85, 76, 84,
       32, 97, 117, 116, 104, 46, 117, 105, 100, 40, 41, 41, 10, 82, 69, 84,
       85, 82, 78, 83, 32, 98, 111, 111, 108, 101, 97, 110, 10, 76, 65, 78,
       71, 85, 65, 71, 69, 32, 112, 108, 112, 103, 115, 113, 108, 10, 83, 69,
       67, 85, 82, 73, 84, 89, 32, 68, 69, 70, 73, 78, 69, 82, 10, 65,
       83, 32, 36, 36, 10, 66, 69, 71, 73, 78, 10, 32, 32, 32, 32, 82,
       69, 84, 85, 82, 78, 32, 69, 88, 73, 83, 84, 83, 32, 40, 10, 32,
       32, 32, 32, 32, 32, 32, 32, 83, 69, 76, 69, 67, 84, 32, 49, 32,
       70, 82, 79, 77, 32, 112, 117, 98, 108, 105, 99, 46, 112, 114, 111, 102,
       105, 108, 101, 115, 10, 32, 32, 32, 32, 32, 32, 32, 32, 87, 72, 69,
       82, 69, 32, 105, 100, 32, 61, 32, 117, 115, 101, 114, 95, 105, 100, 32,
       65, 78, 68, 32, 114, 111, 108, 101, 32, 61, 32, 39, 97, 100, 109, 105,
       110, 39, 10, 32, 32, 32, 32, 41, 59, 10, 69, 78, 68, 59, 10, 36,
       36, 59, 10 >>

\* text of a connection failure
M_Connection ==
    << 67, 111, 110, 110, 101, 99, 116, 105, 111, 110, 32, 114, 101, 102, 117, 115,
       101, 100 >>

\* text of a transport timeout
M_Timeout ==
    << 82, 101, 97, 100, 32, 116, 105, 109, 101, 100, 32, 111, 117, 116 >>

\* text of a TLS failure
M_Ssl ==
    << 99, 101, 114, 116, 105, 102, 105, 99, 97, 116, 101, 32, 118, 101, 114, 105,
       102, 121, 32, 102, 97, 105, 108, 101, 100 >>

\* text of any other error raised by the call
M_Other ==
    << 117, 110, 101, 120, 112, 101, 99, 116, 101, 100, 32, 102, 97, 105, 108, 117,
       114, 101 >>

\* text of the UnicodeEncodeError that print raises (ASCII: the character is shown escaped)
M_CantEncode ==
    << 99, 111, 100, 101, 99, 32, 99, 97, 110, 39, 116, 32, 101, 110, 99, 111,
       100, 101, 32, 99, 104, 97, 114, 97, 99, 116, 101, 114 >>

(***************************************************************************)
(* Python values                                                           *)
(***************************************************************************)
\* a module-level name that is not bound yet / that is bound to x
Unbound == << >>

Bound(x) == << x >>

Val(o) == o[1]

RECURSIVE Digits(_)
\* str(n) for a non-negative int, as in the f-string of line 43
Digits(n) ==
    IF n < 10 THEN << 48 + n >> ELSE Digits(n \div 10) \o << 48 + (n % 10) >>

\* whether the codec of standard output can represent code point c
CanEncodeChar(c, encoding) ==
    CASE encoding = "ascii"   -> c < 128
      [] encoding = "latin-1" -> c < 256
      [] OTHER                -> ~(c >= 55296 /\ c <= 57343)

CanEncode(text, encoding) ==
    \A i \in 1..Len(text) : CanEncodeChar(text[i], encoding)

\* what print(text) writes: the text and the line terminator
Written(text) == text \o << 10 >>

StartsWith(text, prefix) ==
    /\ Len(text) >= Len(prefix)
    /\ SubSeq(text, 1, Len(prefix)) = prefix

(***************************************************************************)
(* Exceptions: class, text, and the class hierarchy that `except` tests    *)
(***************************************************************************)
Base(cls) ==
    CASE cls = "requests.SSLError"         -> "requests.ConnectionError"
      [] cls = "requests.ConnectionError"  -> "requests.RequestException"
      [] cls = "requests.Timeout"          -> "requests.RequestException"
      [] cls = "requests.RequestException" -> "OSError"
      [] cls = "OSError"                   -> "Exception"
      [] cls = "UnicodeEncodeError"        -> "UnicodeError"
      [] cls = "UnicodeError"              -> "ValueError"
      [] cls = "ValueError"                -> "Exception"
      [] cls = "RuntimeError"              -> "Exception"
      [] cls = "Exception"                 -> "BaseException"
      [] OTHER                             -> "object"

RECURSIVE IsSubclass(_, _)
IsSubclass(cls, ancestor) ==
    \/ cls = ancestor
    \/ cls # "object" /\ IsSubclass(Base(cls), ancestor)

\* exceptions requests.post raises: connection, timeout, TLS, anything else
PostExceptions ==
    { [cls |-> "requests.ConnectionError", msg |-> M_Connection],
      [cls |-> "requests.Timeout",         msg |-> M_Timeout],
      [cls |-> "requests.SSLError",        msg |-> M_Ssl],
      [cls |-> "RuntimeError",             msg |-> M_Other] }

\* the exception print raises when the stream cannot encode the text
EncodeError == [cls |-> "UnicodeEncodeError", msg |-> M_CantEncode]

\* str(e) in f"Error: {e}"
StrOfException(x) == x.msg

(***************************************************************************)
(* json.dumps / json.loads, as used for the json= argument of the request  *)
(***************************************************************************)
HexDigit(d) == IF d < 10 THEN 48 + d ELSE 87 + d

Hex4(c) ==
    << HexDigit((c \div 4096) % 16), HexDigit((c \div 256) % 16),
       HexDigit((c \div 16) % 16), HexDigit(c % 16) >>

\* the escape of one code point inside a JSON string (ensure_ascii)
EscapeChar(c) ==
    CASE c = 34 -> << 92, 34 >>
      [] c = 92 -> << 92, 92 >>
      [] c = 10 -> << 92, 110 >>
      [] c = 13 -> << 92, 114 >>
      [] c = 9  -> << 92, 116 >>
      [] c = 8  -> << 92, 98 >>
      [] c = 12 -> << 92, 102 >>
      [] OTHER  -> IF c >= 32 /\ c <= 126 THEN << c >>
                   ELSE << 92, 117 >> \o Hex4(c)

RECURSIVE EscapeRange(_, _, _)
\* the escapes of s[lo..hi], concatenated
EscapeRange(s, lo, hi) ==
    IF lo > hi THEN << >>
    ELSE IF lo = hi THEN EscapeChar(s[lo])
    ELSE LET mid == (lo + hi) \div 2
         IN  EscapeRange(s, lo, mid) \o EscapeRange(s, mid + 1, hi)

EscapeString(s) == EscapeRange(s, 1, Len(s))

DumpsString(s) == << 34 >> \o EscapeString(s) \o << 34 >>

RECURSIVE DumpsPairs(_)
DumpsPairs(pairs) ==
    IF pairs = << >> THEN << >>
    ELSE DumpsString(pairs[1][1]) \o << 58, 32 >> \o DumpsString(pairs[1][2])
         \o (IF Len(pairs) > 1 THEN << 44, 32 >> ELSE << >>)
         \o DumpsPairs(Tail(pairs))

\* json.dumps of a dict of str to str, given as its (key, value) pairs
Dumps(pairs) == << 123 >> \o DumpsPairs(pairs) \o << 125 >>

HexValue(d) ==
    CASE d >= 48 /\ d <= 57  -> d - 48
      [] d >= 97 /\ d <= 102 -> d - 87
      [] d >= 65 /\ d <= 70  -> d - 55
      [] OTHER               -> -1

Unescape(c) ==
    CASE c = 34  -> 34
      [] c = 92  -> 92
      [] c = 47  -> 47
      [] c = 110 -> 10
      [] c = 114 -> 13
      [] c = 116 -> 9
      [] c = 98  -> 8
      [] c = 102 -> 12
      [] OTHER   -> -1

BadParse == [ok |-> FALSE, val |-> << >>, next |-> 0]

RECURSIVE OddBackslashRun(_, _)
\* whether an odd number of consecutive backslashes ends at position i
OddBackslashRun(b, i) ==
    IF i < 1 \/ b[i] # 92 THEN FALSE ELSE ~OddBackslashRun(b, i - 1)

\* position i holds the character that follows an escaping backslash
IsEscapeCode(b, i) == OddBackslashRun(b, i - 1)

\* position i holds one of the four hex digits of a \uXXXX escape
IsHexOfEscape(b, i) ==
    \E k \in 1..4 : i - k >= 1 /\ b[i - k] = 117 /\ IsEscapeCode(b, i - k)

\* the code points position i of a JSON string body contributes
DecodeAt(b, i) ==
    IF IsEscapeCode(b, i)
    THEN IF b[i] = 117
         THEN << HexValue(b[i + 1]) * 4096 + HexValue(b[i + 2]) * 256
                 + HexValue(b[i + 3]) * 16 + HexValue(b[i + 4]) >>
         ELSE << Unescape(b[i]) >>
    ELSE IF b[i] = 92 \/ IsHexOfEscape(b, i) THEN << >>
    ELSE << b[i] >>

\* position i of a JSON string body ending before `stop` is well formed
ValidAt(b, i, stop) ==
    /\ b[i] >= 32
    /\ IsEscapeCode(b, i) =>
          IF b[i] = 117
          THEN i + 4 < stop /\ \A k \in 1..4 : HexValue(b[i + k]) >= 0
          ELSE Unescape(b[i]) >= 0

RECURSIVE DecodeRange(_, _, _)
DecodeRange(b, lo, hi) ==
    IF lo > hi THEN << >>
    ELSE IF lo = hi THEN DecodeAt(b, lo)
    ELSE LET mid == (lo + hi) \div 2
         IN  DecodeRange(b, lo, mid) \o DecodeRange(b, mid + 1, hi)

\* a JSON string starting with its opening quote at position i
LoadsString(b, i) ==
    IF i > Len(b) \/ b[i] # 34 THEN BadParse
    ELSE LET quotes == { j \in (i + 1)..Len(b) :
                            b[j] = 34 /\ ~IsEscapeCode(b, j) }
         IN  IF quotes = {} THEN BadParse
             ELSE LET stop == CHOOSE j \in quotes : \A k \in quotes : j <= k
                  IN  IF \A j \in (i + 1)..(stop - 1) : ValidAt(b, j, stop)
                      THEN [ok |-> TRUE,
                            val |-> DecodeRange(b, i + 1, stop - 1),
                            next |-> stop + 1]
                      ELSE BadParse

RECURSIVE SkipSpace(_, _)
SkipSpace(b, i) ==
    IF i <= Len(b) /\ b[i] \in {32, 9, 10, 13} THEN SkipSpace(b, i + 1) ELSE i

RECURSIVE LoadsPairs(_, _, _)
LoadsPairs(b, i, acc) ==
    LET k == LoadsString(b, SkipSpace(b, i))
        c == SkipSpace(b, k.next)
        v == LoadsString(b, SkipSpace(b, c + 1))
        d == SkipSpace(b, v.next)
    IN  IF ~k.ok \/ c > Len(b) \/ b[c] # 58 THEN BadParse
        ELSE IF ~v.ok \/ d > Len(b) THEN BadParse
        ELSE IF b[d] = 125
             THEN [ok |-> SkipSpace(b, d + 1) = Len(b) + 1,
                   val |-> Append(acc, << k.val, v.val >>), next |-> d + 1]
        ELSE IF b[d] = 44
             THEN LoadsPairs(b, d + 1, Append(acc, << k.val, v.val >>))
        ELSE BadParse

\* json.loads of an object of strings: its (key, value) pairs
Loads(b) ==
    LET i == SkipSpace(b, 1)
        j == SkipSpace(b, i + 1)
    IN  IF i > Len(b) \/ b[i] # 123 THEN BadParse
        ELSE IF j <= Len(b) /\ b[j] = 125
             THEN [ok |-> SkipSpace(b, j + 1) = Len(b) + 1,
                   val |-> << >>, next |-> j + 1]
        ELSE LoadsPairs(b, j, << >>)

(***************************************************************************)
(* The script                                                              *)
(***************************************************************************)
\* the source line about to execute, or "done"
VARIABLE pc
\* the module-level name `headers`
VARIABLE headers
\* the module-level name `sql_function`
VARIABLE sql_function
\* the module-level name `response`
VARIABLE response
\* the name bound by `except Exception as e`
VARIABLE e
\* what print has written, one entry per call
VARIABLE stdout
\* the requests.post calls issued so far
VARIABLE calls
\* the encoding of standard output
VARIABLE encoding
\* "running", "normal", or "traceback" (uncaught exception)
VARIABLE exit

vars == << pc, headers, sql_function, response, e, stdout, calls, encoding, exit >>

\* all response texts of at most MaxBodyLen code points
Bodies == UNION { [1..n -> BodyAlphabet] : n \in 0..MaxBodyLen }

Responses == [status_code : StatusCodes, text : Bodies]

\* lines 8-12: the headers dict, as (name, value) pairs in insertion order
BuildHeadersNoBearer ==
    << << K_apikey, SERVICE_KEY >>,
       << K_Authorization, SERVICE_KEY >>,
       << K_ContentType, S_ApplicationJson >> >>

BuildHeaders ==
    << << K_apikey, SERVICE_KEY >>,
       << K_Authorization, S_Bearer \o SERVICE_KEY >>,
       << K_ContentType, S_ApplicationJson >> >>

\* line 39: f"{SUPABASE_URL}/rest/v1/rpc/exec_sql"
PostUrl == SUPABASE_URL \o S_RpcPath

RECURSIVE Strip(_)
\* str.strip(), used by the stripped variant of the json argument
Strip(s) ==
    IF s = << >> THEN s
    ELSE IF Head(s) \in {32, 9, 10, 13} THEN Strip(Tail(s))
    ELSE IF s[Len(s)] \in {32, 9, 10, 13} THEN Strip(SubSeq(s, 1, Len(s) - 1))
    ELSE s

JsonArgStripped(sql) == << << K_sql, Strip(sql) >> >>

\* line 41: json={"sql": sql_function}
JsonArg(sql) == << << K_sql, sql >> >>

\* line 34: f"SQL: {sql_function}"
SqlLine(sql) == S_SqlPrefix \o sql

ResponseLineStatusOnly(r) == S_ResponsePrefix \o Digits(r.status_code)

\* line 43: f"Response: {response.status_code} - {response.text}"
ResponseLine(r) ==
    S_ResponsePrefix \o Digits(r.status_code) \o S_Dash \o r.text

\* line 45: f"Error: {e}"
ErrorLine(x) == S_ErrorPrefix \o StrOfException(x)

InTryNone(line) == FALSE

InTryPostOnly(line) == line = "L38"

\* lines 37-43: the statements inside the try block
InTry(line) == line \in {"L38", "L43"}

ExceptClauseRequestsOnly == "requests.RequestException"

\* line 44: except Exception as e
ExceptClause == "Exception"

SuccSqlFirst(line) ==
    CASE line = "L8"  -> "L15"
      [] line = "L15" -> "L18"
      [] line = "L18" -> "L34"
      [] line = "L34" -> "L33"
      [] line = "L33" -> "L38"

\* lines 8-38: the straight-line order of the statements before the call
Succ(line) ==
    CASE line = "L8"  -> "L15"
      [] line = "L15" -> "L18"
      [] line = "L18" -> "L33"
      [] line = "L33" -> "L34"
      [] line = "L34" -> "L38"

AfterResponseRetry5xx(r) == IF r.status_code >= 500 THEN "L38" ELSE "done"

\* line 43 is the last statement of the try block and nothing follows the
\* try statement: the script ends whatever the status code
AfterResponse(r) == "done"

AfterHandlerRetry == "L38"

\* line 45 is the last statement of the handler: the script ends
AfterHandler == "done"

HandlerOutputPass(out, x) == out

\* line 45: what the handler writes
HandlerOutput(out, x) == Append(out, Written(ErrorLine(x)))

\* raising x at `line`: control moves to the handler when the line is inside
\* the try block and the clause matches, otherwise the exception propagates
\* and the interpreter exits with a traceback
Raise(line, x) ==
    IF InTry(line) /\ IsSubclass(x.cls, ExceptClause)
    THEN /\ pc' = "L45"
         /\ e' = Bound(x)
         /\ exit' = exit
    ELSE /\ pc' = "done"
         /\ e' = e
         /\ exit' = "traceback"

\* print(text) at `line`, continuing at `next`
PyPrint(line, text, out, next) ==
    IF CanEncode(Written(text), encoding)
    THEN /\ stdout' = out
         /\ pc' = next
         /\ e' = e
         /\ exit' = IF next = "done" THEN "normal" ELSE exit
    ELSE /\ stdout' = stdout
         /\ Raise(line, EncodeError)

Init ==
    /\ pc = "L8"
    /\ headers = Unbound
    /\ sql_function = Unbound
    /\ response = Unbound
    /\ e = Unbound
    /\ stdout = << >>
    /\ calls = << >>
    /\ encoding \in Encodings
    /\ exit = "running"

\* lines 8-12
L8_Headers ==
    /\ pc = "L8"
    /\ headers' = Bound(BuildHeaders)
    /\ pc' = Succ("L8")
    /\ UNCHANGED << sql_function, response, e, stdout, calls, encoding, exit >>

\* line 15
L15_Echo ==
    /\ pc = "L15"
    /\ PyPrint("L15", S_Testing, Append(stdout, Written(S_Testing)), Succ("L15"))
    /\ UNCHANGED << headers, sql_function, response, calls, encoding >>

\* lines 18-31
L18_Sql ==
    /\ pc = "L18"
    /\ sql_function' = Bound(SQL_LITERAL)
    /\ pc' = Succ("L18")
    /\ UNCHANGED << headers, response, e, stdout, calls, encoding, exit >>

\* line 33
L33_Echo ==
    /\ pc = "L33"
    /\ PyPrint("L33", S_Attempting, Append(stdout, Written(S_Attempting)),
             Succ("L33"))
    /\ UNCHANGED << headers, sql_function, response, calls, encoding >>

\* line 34
L34_Echo ==
    /\ pc = "L34"
    /\ PyPrint("L34", SqlLine(Val(sql_function)),
             Append(stdout, Written(SqlLine(Val(sql_function)))), Succ("L34"))
    /\ UNCHANGED << headers, sql_function, response, calls, encoding >>

\* lines 38-42: the call is issued (no timeout argument) and the script blocks
L38_Post ==
    /\ pc = "L38"
    /\ calls' = Append(calls,
                  [method  |-> "POST",
                   url     |-> PostUrl,
                   headers |-> Val(headers),
                   body    |-> Dumps(JsonArg(Val(sql_function))),
                   timeout |-> "None"])
    /\ pc' = "L38_blocked"
    /\ UNCHANGED << headers, sql_function, response, e, stdout, encoding, exit >>

\* line 38: the call returns a response, whatever its status code
L38_Return ==
    /\ pc = "L38_blocked"
    /\ \E r \in Responses : response' = Bound(r)
    /\ pc' = "L43"
    /\ UNCHANGED << headers, sql_function, e, stdout, calls, encoding, exit >>

\* line 38: the call raises
L38_Raise ==
    /\ pc = "L38_blocked"
    /\ \E x \in PostExceptions : Raise("L38", x)
    /\ UNCHANGED << headers, sql_function, response, stdout, calls, encoding >>

\* line 43
L43_Echo ==
    /\ pc = "L43"
    /\ PyPrint("L43", ResponseLine(Val(response)),
             Append(stdout, Written(ResponseLine(Val(response)))),
             AfterResponse(Val(response)))
    /\ UNCHANGED << headers, sql_function, response, calls, encoding >>

\* line 45
L45_Echo ==
    /\ pc = "L45"
    /\ PyPrint("L45", ErrorLine(Val(e)), HandlerOutput(stdout, Val(e)),
             AfterHandler)
    /\ UNCHANGED << headers, sql_function, response, calls, encoding >>

\* the steps the interpreter takes on its own
ScriptStep ==
    \/ L8_Headers
    \/ L15_Echo
    \/ L18_Sql
    \/ L33_Echo
    \/ L34_Echo
    \/ L38_Post
    \/ L43_Echo
    \/ L45_Echo

\* the steps that need the network call to complete
NetworkStep ==
    \/ L38_Return
    \/ L38_Raise

Next ==
    \/ L8_Headers
    \/ L15_Echo
    \/ L18_Sql
    \/ L33_Echo
    \/ L34_Echo
    \/ L38_Post
    \/ L38_Return
    \/ L38_Raise
    \/ L43_Echo
    \/ L45_Echo

Spec == Init /\ [][Next]_vars

\* the interpreter keeps executing; nothing is assumed of the network
LiveSpec == Spec /\ WF_vars(ScriptStep)

(***************************************************************************)
(* Properties                                                              *)
(***************************************************************************)
\* "https://jwsidjgsjohhrntxdljp.supabase.co/rest/v1/rpc/exec_sql"
ExpectedUrl ==
    << 104, 116, 116, 112, 115, 58, 47, 47, 106, 119, 115, 105, 100, 106, 103, 115,
       106, 111, 104, 104, 114, 110, 116, 120, 100, 108, 106, 112, 46, 115, 117, 112,
       97, 98, 97, 115, 101, 46, 99, 111, 47, 114, 101, 115, 116, 47, 118, 49,
       47, 114, 112, 99, 47, 101, 120, 101, 99, 95, 115, 113, 108 >>

\* the first bytes of the expected body: {"sql": "\nCREATE (backslash, n: the escaped line feed)
ExpectedBodyStart ==
    << 123, 34, 115, 113, 108, 34, 58, 32, 34, 92, 110, 67, 82, 69, 65, 84,
       69 >>

\* the last bytes of the expected body: $$;\n"}
ExpectedBodyEnd ==
    << 36, 36, 59, 92, 110, 34, 125 >>

\* what print writes for status 404 and text "a": "Response: 404 - a" and a line feed
Expected404Entry ==
    << 82, 101, 115, 112, 111, 110, 115, 101, 58, 32, 52, 48, 52, 32, 45, 32,
       97, 10 >>

\* what print writes for the RuntimeError: "Error: unexpected failure" and a line feed
ExpectedOtherErrorEntry ==
    << 69, 114, 114, 111, 114, 58, 32, 117, 110, 101, 120, 112, 101, 99, 116, 101,
       100, 32, 102, 97, 105, 108, 117, 114, 101, 10 >>

IsResponseEntry(w) == StartsWith(w, S_ResponsePrefix)

IsErrorEntry(w) == StartsWith(w, S_ErrorPrefix)

ResponseEntries == { i \in 1..Len(stdout) : IsResponseEntry(stdout[i]) }

ErrorEntries == { i \in 1..Len(stdout) : IsErrorEntry(stdout[i]) }

HasResult == ResponseEntries \cup ErrorEntries # {}

\* the call of line 38 has been issued and is no longer pending
PostCompleted == calls # << >> /\ pc # "L38_blocked"

PostReturned == response # Unbound

\* the call was issued, the script is past it, and no response was bound
PostRaised == PostCompleted /\ response = Unbound

\* the Response line of the bound response, spelled out
ExpectedResponseEntry ==
    S_ResponsePrefix \o Digits(Val(response).status_code) \o S_Dash
        \o Val(response).text \o << 10 >>

\* C1: the POST to the exec_sql endpoint is issued exactly once per run: never
\* more than once at any moment, and exactly once by the time the script has
\* terminated, whether the call returned or raised.
C1_SentExactlyOnce ==
    /\ Len(calls) <= 1
    /\ \A i \in 1..Len(calls) :
          calls[i].method = "POST" /\ calls[i].url = ExpectedUrl
    /\ pc \in {"L38_blocked", "L43", "L45", "done"} => Len(calls) = 1

C1_Witness ==
    /\ pc = "done"
    /\ Len(calls) = 1
    /\ PostRaised
    /\ ErrorEntries # {}

C3_NoRetry == [][PostCompleted => calls' = calls]_vars

C3_Witness ==
    /\ pc = "done"
    /\ PostReturned
    /\ Val(response).status_code = 503
    /\ Len(calls) = 1

C6_BodyCarriesSql ==
    \A i \in 1..Len(calls) :
        LET parsed == Loads(calls[i].body)
        IN  /\ parsed.ok
            /\ Len(parsed.val) = 1
            /\ parsed.val[1][1] = K_sql
            /\ parsed.val[1][2] = SQL_LITERAL
            /\ stdout[3] = S_SqlPrefix \o parsed.val[1][2] \o << 10 >>

C6_Witness ==
    /\ Len(calls) = 1
    /\ StartsWith(calls[1].body, ExpectedBodyStart)
    /\ SubSeq(calls[1].body, Len(calls[1].body) - Len(ExpectedBodyEnd) + 1,
              Len(calls[1].body)) = ExpectedBodyEnd
    /\ Len(calls[1].body) > Len(SQL_LITERAL) + 10

\* C7: the request goes to SUPABASE_URL followed by "/rest/v1/rpc/exec_sql"
\* with exactly the headers apikey = SERVICE_KEY, Authorization = "Bearer "
\* followed by SERVICE_KEY, Content-Type = "application/json"; from the moment
\* the headers are built no step changes them.
C7_FixedRequest ==
    /\ headers # Unbound =>
          /\ Len(Val(headers)) = 3
          /\ Val(headers)[1] = << K_apikey, SERVICE_KEY >>
          /\ Val(headers)[2][1] = K_Authorization
          /\ SubSeq(Val(headers)[2][2], 1, 7) = S_Bearer
          /\ SubSeq(Val(headers)[2][2], 8, Len(Val(headers)[2][2])) = SERVICE_KEY
          /\ Val(headers)[3] = << K_ContentType, S_ApplicationJson >>
    /\ \A i \in 1..Len(calls) :
          /\ calls[i].url = ExpectedUrl
          /\ calls[i].url = SUPABASE_URL \o S_RpcPath
          /\ calls[i].headers = Val(headers)

C7_Witness ==
    /\ pc = "done"
    /\ Len(calls) = 1
    /\ Len(calls[1].headers) = 3
    /\ StartsWith(calls[1].headers[2][2], S_Bearer)
    /\ calls[1].url = ExpectedUrl

\* C8: the three progress lines are printed, in source order, before the POST
\* is issued; a result line is printed only once the POST attempt has
\* completed, and it is the last thing printed.
C8_Ordering ==
    /\ calls # << >> =>
          /\ Len(stdout) >= 3
          /\ stdout[1] = S_Testing \o << 10 >>
          /\ stdout[2] = S_Attempting \o << 10 >>
          /\ stdout[3] = S_SqlPrefix \o SQL_LITERAL \o << 10 >>
    /\ HasResult => PostCompleted
    /\ \A i \in ResponseEntries \cup ErrorEntries : i = 4 /\ i = Len(stdout)
    /\ pc = "done" => Len(stdout) = 4 /\ HasResult

C8_Witness ==
    /\ pc = "L38_blocked"
    /\ Len(calls) = 1
    /\ Len(stdout) = 3
    /\ ~HasResult

C10_PrintFailureCaught ==
    (PostReturned /\ ~CanEncode(ExpectedResponseEntry, encoding)) =>
        /\ exit # "traceback"
        /\ Len(calls) = 1
        /\ ResponseEntries = {}
        /\ pc = "done" =>
              /\ Val(e).cls = "UnicodeEncodeError"
              /\ stdout[4] = S_ErrorPrefix \o M_CantEncode \o << 10 >>
              /\ Len(stdout) = 4
              /\ exit = "normal"

C10_Witness ==
    /\ pc = "done"
    /\ PostReturned
    /\ Val(response).status_code = 200
    /\ e # Unbound
    /\ Val(e).cls = "UnicodeEncodeError"
    /\ Len(calls) = 1
    /\ ErrorEntries = {4}

=============================================================================
